---- MODULE Spec2Model ----
(***************************************************************************)
(* Model of the label diff engine (label_diff.py).                         *)
(*                                                                         *)
(* Optional[str] values are modelled as sequences of length at most one:   *)
(* <<>> is None and <<s>> is the string s, so that None and the empty      *)
(* string "" stay distinct.  Python object references held by the result   *)
(* lists are modelled as 1-based positions in the input lists; 0 is None.  *)
(***************************************************************************)
EXTENDS Integers, Sequences, FiniteSets, TLC

VARIABLES
  truth,             \* create_diff argument: list of LabelSpec
  actual,            \* create_diff argument: list of Label (resolved_alias is written)
  namespace,         \* create_diff argument
  repository,        \* create_diff argument
  rename_alias,      \* create_diff argument
  require_optional,  \* create_diff argument
  pc,                \* position in create_diff / in a helper call
  true_label,        \* pass 1: position of the loop's true_label in truth
  actual_label,      \* pass 2: position of the loop's actual_label in actual
  found_label,       \* the local found_label (0 is None)
  valid, missing, extra, diff,   \* the four local lists
  result,            \* the returned LabelDiff
  changed,           \* what is_change() returned for it
  command,           \* labels.py: args.command ("report" or "sync")
  report_format,     \* labels.py: args.format
  args,              \* labels.py: args.create, delete, modify, assumeyes
  repos,             \* the remote: repositories as fetch_repositories lists them
  repos_err,         \* the remote: the error of fetch_repositories (None: success)
  rejects,           \* the remote: label writes are answered with an error
  repo_i,            \* position of the namespace loop in repos
  diffs,             \* the local list diffs of the report commands
  calls,             \* create/delete/update calls issued so far, in order
  stdout, stderr,    \* what has been printed so far
  exit_code,         \* the process exit code (-1: still running)
  raised,            \* the uncaught exception that ended the process ("": none)
  remote,            \* the remote: the labels of the repository being changed
  phase,             \* _apply: the apply_* function running ("": none)
  entry_i,           \* apply_*: position of the loop in its list
  asked,             \* _confirm: prompts answered so far for the entry
  log,               \* apply_*: report, prompt and call events, in order
  listing,           \* the remote: the response of each page of a listing
  endpoint,          \* fetch_paginated_json: the page to fetch next
  content,           \* fetch_paginated_json: the items collected so far
  visited,           \* fetch_paginated_json: the pages fetched so far, in order
  returned           \* fetch_paginated_json: what it returned (<<>>: nothing yet)

\* the command line, the remote and the process around a command
Settings == <<command, report_format, args, repos, repos_err, rejects>>
Process == <<repo_i, diffs, calls, stdout, stderr, exit_code, raised>>

Applying == <<remote, phase, entry_i, asked, log>>
Paging == <<listing, endpoint, content, visited, returned>>

\* what a caller of create_diff holds besides the call's own state
Others == <<changed, Settings, Process, Applying, Paging>>

vars == <<truth, actual, namespace, repository, rename_alias, require_optional,
          pc, true_label, actual_label, found_label, valid, missing, extra, diff,
          result, Others>>

\* ---------------------------------------------------------------- bounds
MaxTruth == 2
MaxActual == 2
MaxAlias == 2

\* ------------------------------------------------------------ data model
None == <<>>
Some(s) == <<s>>

Names == {"bug", "defect"}
Descriptions == {None, Some(""), Some("Something is wrong")}
Colors == {None, Some(""), Some("d73a4a")}
Targets == {<<"octo", "hello">>, <<"acme", "world">>}

\* Label.__init__
Label(name, description, color) ==
  [name |-> name, description |-> description, color |-> color,
   resolved_alias |-> 0]

\* LabelSpec.__init__
LabelSpec(name, description, color, optional, alias) ==
  [name |-> name, description |-> description, color |-> color,
   resolved_alias |-> 0, optional |-> optional, alias |-> alias]

\* LabelDeltaType
NAME == "NAME"
DESCRIPTION == "DESCRIPTION"
COLOR == "COLOR"

\* LabelDelta.__init__ (spec and actual are references)
LabelDelta(spec, act, delta) == [spec |-> spec, actual |-> act, delta |-> delta]

\* LabelDiff.__init__
LabelDiff(ns, repo, v, m, e, d) ==
  [namespace |-> ns, repository |-> repo,
   valid |-> v, missing |-> m, extra |-> e, diff |-> d]

\* faulty variant of LabelDiff.is_change: valid counted as a change
is_change_with_valid(d) ==
  Len(d.missing) > 0 \/ Len(d.extra) > 0 \/ Len(d.diff) > 0 \/ Len(d.valid) > 0

\* LabelDiff.is_change
is_change(d) == Len(d.missing) > 0 \/ Len(d.extra) > 0 \/ Len(d.diff) > 0

SeqsUpTo(S, n) == UNION {[1..k -> S] : k \in 0..n}

\* ------------------------------------------------------ matching helpers
\* faulty variant of get_by_name: no early return, the last match wins
RECURSIVE NameScanLast(_, _, _)
NameScanLast(list, name, pos) ==
  IF pos < 1 THEN 0
  ELSE IF list[pos].name = name THEN pos
  ELSE NameScanLast(list, name, pos - 1)

get_by_name_last(list, name) == NameScanLast(list, name, Len(list))

\* get_by_name: position of the first label whose name is `name`, else 0
RECURSIVE NameScan(_, _, _)
NameScan(list, name, pos) ==
  IF pos > Len(list) THEN 0
  ELSE IF list[pos].name = name THEN pos
  ELSE NameScan(list, name, pos + 1)

get_by_name(list, name) == NameScan(list, name, 1)

\* `x in list` for a Python list
InList(x, list) == \E pos \in 1..Len(list) : list[pos] = x

\* get_by_alias: position of the first spec whose alias list has the name
RECURSIVE AliasScan(_, _, _)
AliasScan(true_list, alabel, pos) ==
  IF pos > Len(true_list) THEN 0
  ELSE IF Len(true_list[pos].alias) = 0 THEN AliasScan(true_list, alabel, pos + 1)
  ELSE IF InList(alabel.name, true_list[pos].alias) THEN pos
  ELSE AliasScan(true_list, alabel, pos + 1)

get_by_alias(true_list, alabel) == AliasScan(true_list, alabel, 1)

\* faulty variant of get_by_alias_reverse: the loops swapped (labels outside)
RECURSIVE LabelsFirstScan(_, _, _)
LabelsFirstScan(actual_list, tlabel, pos) ==
  IF pos > Len(actual_list) THEN 0
  ELSE IF InList(actual_list[pos].name, tlabel.alias) THEN pos
  ELSE LabelsFirstScan(actual_list, tlabel, pos + 1)

get_by_alias_reverse_swapped(actual_list, tlabel) ==
  LabelsFirstScan(actual_list, tlabel, 1)

\* get_by_alias_reverse: outer loop over the aliases, inner over the labels
RECURSIVE ReverseScan(_, _, _)
ReverseScan(actual_list, tlabel, a) ==
  IF a > Len(tlabel.alias) THEN 0
  ELSE LET hit == NameScan(actual_list, tlabel.alias[a], 1)
       IN  IF hit # 0 THEN hit ELSE ReverseScan(actual_list, tlabel, a + 1)

get_by_alias_reverse(actual_list, tlabel) == ReverseScan(actual_list, tlabel, 1)

\* ------------------------------------------------------------ create_diff
\* faulty variant of FindCounterpart: the alias lookup tried first
FindCounterpartAliasFirst(actual_list, tlabel) ==
  LET byAlias == get_by_alias_reverse(actual_list, tlabel)
  IN  IF byAlias = 0 THEN get_by_name(actual_list, tlabel.name) ELSE byAlias

\* pass 1, the lookup of a spec's counterpart
FindCounterpart(actual_list, tlabel) ==
  LET byName == get_by_name(actual_list, tlabel.name)
  IN  IF byName = 0 THEN get_by_alias_reverse(actual_list, tlabel) ELSE byName

\* faulty variants of SkipOptional: a wrong connective; the flag ignored
SkipOptionalOr(tlabel, req_optional) == (~req_optional) \/ tlabel.optional

SkipOptionalNoFlag(tlabel, req_optional) == tlabel.optional

\* pass 1, an unmatched optional spec is dropped
SkipOptional(tlabel, req_optional) == (~req_optional) /\ tlabel.optional

\* pass 1, the delta list of a matched pair
\* faulty variant of DescriptionDelta: an undeclared description compared too
DescriptionDeltaNoNoneCheck(tlabel, flabel) ==
  IF tlabel.description # flabel.description THEN <<DESCRIPTION>> ELSE <<>>

DescriptionDelta(tlabel, flabel) ==
  IF tlabel.description # None
     /\ tlabel.description # flabel.description
  THEN <<DESCRIPTION>> ELSE <<>>

\* faulty variants of ColorDelta: the test inverted; an observed None taken as a wildcard
ColorDeltaInverted(tlabel, flabel) ==
  IF tlabel.color # None /\ tlabel.color = flabel.color
  THEN <<COLOR>> ELSE <<>>

ColorDeltaWildcard(tlabel, flabel) ==
  IF tlabel.color # None /\ flabel.color # None /\ tlabel.color # flabel.color
  THEN <<COLOR>> ELSE <<>>

ColorDelta(tlabel, flabel) ==
  IF tlabel.color # None /\ tlabel.color # flabel.color
  THEN <<COLOR>> ELSE <<>>

\* faulty variant of NameDelta: the rename_alias flag ignored
NameDeltaAlways(tlabel, flabel, ren_alias) ==
  IF tlabel.name # flabel.name THEN <<NAME>> ELSE <<>>

NameDelta(tlabel, flabel, ren_alias) ==
  IF ren_alias /\ tlabel.name # flabel.name THEN <<NAME>> ELSE <<>>

ComputeDelta(tlabel, flabel, ren_alias) ==
  DescriptionDelta(tlabel, flabel)
    \o ColorDelta(tlabel, flabel)
    \o NameDelta(tlabel, flabel, ren_alias)

\* faulty variant of FindSpec: the alias lookup left out
FindSpecNameOnly(truth_list, alabel) == get_by_name(truth_list, alabel.name)

\* pass 2, the lookup of a label's spec
FindSpec(truth_list, alabel) ==
  LET byName == get_by_name(truth_list, alabel.name)
  IN  IF byName = 0 THEN get_by_alias(truth_list, alabel) ELSE byName

\* create_diff as one call, for its callers: the same lookups and tests as
\* the steps below.  acc carries the local lists and the label list.
Pass1Body(truth_list, ti, acc, ren_alias, req_optional) ==
  LET tlabel == truth_list[ti]
      f == FindCounterpart(acc.actual, tlabel)
  IN  IF f = 0
      THEN IF SkipOptional(tlabel, req_optional) THEN acc
           ELSE [acc EXCEPT !.missing = Append(@, ti)]
      ELSE LET delta == ComputeDelta(tlabel, acc.actual[f], ren_alias)
           IN  IF Len(delta) > 0
               THEN [acc EXCEPT !.diff = Append(@, LabelDelta(ti, f, delta))]
               ELSE [acc EXCEPT
                       !.actual[f].resolved_alias =
                          IF tlabel.name # acc.actual[f].name THEN ti ELSE @,
                       !.valid = Append(@, f)]

RECURSIVE Pass1Loop(_, _, _, _, _)
Pass1Loop(truth_list, ti, acc, ren_alias, req_optional) ==
  IF ti > Len(truth_list) THEN acc
  ELSE Pass1Loop(truth_list, ti + 1,
                 Pass1Body(truth_list, ti, acc, ren_alias, req_optional),
                 ren_alias, req_optional)

RECURSIVE Pass2Loop(_, _, _, _)
Pass2Loop(truth_list, actual_list, pos, acc) ==
  IF pos > Len(actual_list) THEN acc
  ELSE Pass2Loop(truth_list, actual_list, pos + 1,
                 IF FindSpec(truth_list, actual_list[pos]) = 0
                 THEN Append(acc, pos) ELSE acc)

\* the LabelDiff returned and the label list as the call leaves it
create_diff(truth_list, actual_list, ns, repo, ren_alias, req_optional) ==
  LET p1 == Pass1Loop(truth_list, 1,
                      [valid |-> <<>>, missing |-> <<>>, diff |-> <<>>,
                       actual |-> actual_list],
                      ren_alias, req_optional)
  IN  [diff |-> LabelDiff(ns, repo, p1.valid, p1.missing,
                          Pass2Loop(truth_list, p1.actual, 1, <<>>), p1.diff),
       actual |-> p1.actual]

\* ---------------------------------------------------------------- inputs
SpecValues ==
  {LabelSpec(n, d, c, o, al) :
     n \in Names, d \in Descriptions, c \in Colors, o \in BOOLEAN,
     al \in SeqsUpTo(Names, MaxAlias)}

LabelValues == {Label(n, d, c) : n \in Names, d \in Descriptions, c \in Colors}

\* lists of several entries: every name and alias shape, two colors
ListSpecValues ==
  {LabelSpec(n, None, c, o, al) :
     n \in Names, c \in {Some(""), Some("d73a4a")}, o \in BOOLEAN,
     al \in SeqsUpTo(Names, MaxAlias)}

ListLabelValues == {Label(n, None, Some("d73a4a")) : n \in Names}

NoResult == LabelDiff("", "", <<>>, <<>>, <<>>, <<>>)

\* one spec against one label, every field value
PairInputs ==
  /\ truth \in {<<>>} \cup {<<s>> : s \in SpecValues}
  /\ actual \in {<<>>} \cup {<<l>> : l \in LabelValues}
  /\ \E tg \in Targets : namespace = tg[1] /\ repository = tg[2]

\* lists of specs against lists of labels
ListInputs ==
  /\ truth \in SeqsUpTo(ListSpecValues, MaxTruth)
  /\ actual \in SeqsUpTo(ListLabelValues, MaxActual)
  /\ namespace = "octo" /\ repository = "hello"

Locals ==
  /\ true_label = 1 /\ actual_label = 1 /\ found_label = 0
  /\ valid = <<>> /\ missing = <<>> /\ extra = <<>> /\ diff = <<>>
  /\ result = NoResult

\* no listing is being fetched
PagingIdle ==
  /\ listing = <<>> /\ endpoint = 1 /\ content = <<>>
  /\ visited = <<>> /\ returned = <<>>

\* no apply_* function is running
ApplyingIdle ==
  remote = <<>> /\ phase = "" /\ entry_i = 1 /\ asked = 0 /\ log = <<>>

NoArgs == [create |-> FALSE, delete |-> FALSE, modify |-> FALSE, assumeyes |-> FALSE]

\* nothing has been asked of the result yet and no command is running
OthersIdle ==
  /\ changed = FALSE
  /\ command = "" /\ report_format = "" /\ args = NoArgs
  /\ repos = <<>> /\ repos_err = None /\ rejects = FALSE /\ repo_i = 1
  /\ diffs = <<>> /\ calls = <<>> /\ stdout = <<>> /\ stderr = <<>>
  /\ exit_code = -1 /\ raised = ""
  /\ ApplyingIdle /\ PagingIdle

\* ------------------------------------------------------------ create_diff
Init ==
  /\ PairInputs \/ ListInputs
  /\ rename_alias \in BOOLEAN
  /\ require_optional \in BOOLEAN
  /\ pc = "pass1"
  /\ Locals
  /\ OthersIdle

Args == <<truth, namespace, repository, rename_alias, require_optional>>

\* pass 1: the spec has no counterpart and is optional: dropped
Pass1Skip ==
  /\ pc = "pass1" /\ true_label <= Len(truth)
  /\ FindCounterpart(actual, truth[true_label]) = 0
  /\ SkipOptional(truth[true_label], require_optional)
  /\ found_label' = 0
  /\ true_label' = true_label + 1
  /\ UNCHANGED <<Args, Others, actual, pc, actual_label, valid, missing, extra, diff, result>>

\* faulty variant of Pass1Missing: the spec put at the front of missing
Pass1MissingFront ==
  /\ pc = "pass1" /\ true_label <= Len(truth)
  /\ FindCounterpart(actual, truth[true_label]) = 0
  /\ ~SkipOptional(truth[true_label], require_optional)
  /\ found_label' = 0
  /\ missing' = <<true_label>> \o missing
  /\ true_label' = true_label + 1
  /\ UNCHANGED <<Args, Others, actual, pc, actual_label, valid, extra, diff, result>>

\* pass 1: the spec has no counterpart: missing
Pass1Missing ==
  /\ pc = "pass1" /\ true_label <= Len(truth)
  /\ FindCounterpart(actual, truth[true_label]) = 0
  /\ ~SkipOptional(truth[true_label], require_optional)
  /\ found_label' = 0
  /\ missing' = Append(missing, true_label)
  /\ true_label' = true_label + 1
  /\ UNCHANGED <<Args, Others, actual, pc, actual_label, valid, extra, diff, result>>

\* faulty variants of Pass1Diff: the length test left out; the `continue`
\* left out, so that the label is appended to valid as well
Pass1DiffAlways ==
  /\ pc = "pass1" /\ true_label <= Len(truth)
  /\ LET f == FindCounterpart(actual, truth[true_label])
     IN  /\ f # 0
         /\ diff' = Append(diff, LabelDelta(true_label, f,
                              ComputeDelta(truth[true_label], actual[f], rename_alias)))
         /\ found_label' = f
  /\ true_label' = true_label + 1
  /\ UNCHANGED <<Args, Others, actual, pc, actual_label, valid, missing, extra, result>>

Pass1DiffFallThrough ==
  /\ pc = "pass1" /\ true_label <= Len(truth)
  /\ LET f == FindCounterpart(actual, truth[true_label])
     IN  /\ f # 0
         /\ LET delta == ComputeDelta(truth[true_label], actual[f], rename_alias)
            IN  /\ Len(delta) > 0
                /\ diff' = Append(diff, LabelDelta(true_label, f, delta))
         /\ valid' = Append(valid, f)
         /\ found_label' = f
  /\ true_label' = true_label + 1
  /\ UNCHANGED <<Args, Others, actual, pc, actual_label, missing, extra, result>>

\* pass 1: the counterpart differs: a LabelDelta
Pass1Diff ==
  /\ pc = "pass1" /\ true_label <= Len(truth)
  /\ LET f == FindCounterpart(actual, truth[true_label])
     IN  /\ f # 0
         /\ LET delta == ComputeDelta(truth[true_label], actual[f], rename_alias)
            IN  /\ Len(delta) > 0
                /\ diff' = Append(diff, LabelDelta(true_label, f, delta))
         /\ found_label' = f
  /\ true_label' = true_label + 1
  /\ UNCHANGED <<Args, Others, actual, pc, actual_label, valid, missing, extra, result>>

\* faulty variant of Pass1Valid: resolved_alias written for every valid label
Pass1ValidStampAlways ==
  /\ pc = "pass1" /\ true_label <= Len(truth)
  /\ LET f == FindCounterpart(actual, truth[true_label])
     IN  /\ f # 0
         /\ Len(ComputeDelta(truth[true_label], actual[f], rename_alias)) = 0
         /\ actual' = [actual EXCEPT ![f].resolved_alias = true_label]
         /\ valid' = Append(valid, f)
         /\ found_label' = f
  /\ true_label' = true_label + 1
  /\ UNCHANGED <<Args, Others, pc, actual_label, missing, extra, diff, result>>

\* pass 1: the counterpart does not differ: valid, stamped when names differ
Pass1Valid ==
  /\ pc = "pass1" /\ true_label <= Len(truth)
  /\ LET f == FindCounterpart(actual, truth[true_label])
     IN  /\ f # 0
         /\ Len(ComputeDelta(truth[true_label], actual[f], rename_alias)) = 0
         /\ actual' = IF truth[true_label].name # actual[f].name
                      THEN [actual EXCEPT ![f].resolved_alias = true_label]
                      ELSE actual
         /\ valid' = Append(valid, f)
         /\ found_label' = f
  /\ true_label' = true_label + 1
  /\ UNCHANGED <<Args, Others, pc, actual_label, missing, extra, diff, result>>

\* the loop over truth is exhausted
Pass1Exit ==
  /\ pc = "pass1" /\ true_label > Len(truth)
  /\ pc' = "pass2"
  /\ UNCHANGED <<Args, Others, actual, true_label, actual_label, found_label, valid, missing, extra, diff, result>>

\* pass 2: no spec has the label's name as name or alias: extra
Pass2Extra ==
  /\ pc = "pass2" /\ actual_label <= Len(actual)
  /\ FindSpec(truth, actual[actual_label]) = 0
  /\ found_label' = 0
  /\ extra' = Append(extra, actual_label)
  /\ actual_label' = actual_label + 1
  /\ UNCHANGED <<Args, Others, actual, pc, true_label, valid, missing, diff, result>>

\* pass 2: some spec has it: nothing to do
Pass2Found ==
  /\ pc = "pass2" /\ actual_label <= Len(actual)
  /\ FindSpec(truth, actual[actual_label]) # 0
  /\ found_label' = FindSpec(truth, actual[actual_label])
  /\ actual_label' = actual_label + 1
  /\ UNCHANGED <<Args, Others, actual, pc, true_label, valid, missing, extra, diff, result>>

\* faulty variant of Return: namespace and repository in the wrong order
ReturnSwapped ==
  /\ pc = "pass2" /\ actual_label > Len(actual)
  /\ result' = LabelDiff(repository, namespace, valid, missing, extra, diff)
  /\ pc' = "done"
  /\ UNCHANGED <<Args, Others, actual, true_label, actual_label, found_label, valid, missing, extra, diff>>

\* return LabelDiff(namespace, repository, valid, missing, extra, diff)
Return ==
  /\ pc = "pass2" /\ actual_label > Len(actual)
  /\ result' = LabelDiff(namespace, repository, valid, missing, extra, diff)
  /\ pc' = "done"
  /\ UNCHANGED <<Args, Others, actual, true_label, actual_label, found_label, valid, missing, extra, diff>>

\* the caller asks the returned LabelDiff whether it is a change
CallIsChange ==
  /\ pc = "done"
  /\ changed' = is_change(result)
  /\ pc' = "asked"
  /\ UNCHANGED <<Args, Paging, Settings, Process, Applying, actual, true_label, actual_label,
                 found_label, valid, missing, extra, diff, result>>

Next ==
  \/ Pass1Skip
  \/ Pass1Missing
  \/ Pass1Diff
  \/ Pass1Valid
  \/ Pass1Exit
  \/ Pass2Extra
  \/ Pass2Found
  \/ Return
  \/ CallIsChange

Spec == Init /\ [][Next]_vars

\* ------------------------------------------- get_by_alias_reverse, alone
LookupNames == Names \cup {"question"}

InitLookup ==
  /\ truth \in {<<LabelSpec(n, None, None, FALSE, al)>> :
                  n \in LookupNames, al \in SeqsUpTo(LookupNames, MaxAlias)}
  /\ actual \in SeqsUpTo({Label(n, None, None) : n \in LookupNames}, MaxActual)
  /\ namespace = "octo" /\ repository = "hello"
  /\ rename_alias = FALSE /\ require_optional = FALSE
  /\ pc = "lookup"
  /\ Locals
  /\ OthersIdle

\* found_label = get_by_alias_reverse(actual, true_label)
CallGetByAliasReverse ==
  /\ pc = "lookup"
  /\ found_label' = get_by_alias_reverse(actual, truth[true_label])
  /\ pc' = "looked"
  /\ UNCHANGED <<Args, Others, actual, true_label, actual_label, valid, missing, extra,
                 diff, result>>

NextLookup == CallGetByAliasReverse

SpecLookup == InitLookup /\ [][NextLookup]_vars

\* ------------------------------------------- the commands of labels.py
MaxRepos == 2

RepoNames == <<"hello", "world", "demo", "misc">>
Formats == {"markdown", "summary", "json", "none", "xml"}

\* the LabelDiff with its references followed: what a caller reads from it
Resolved(truth_list, r) ==
  [namespace |-> r.diff.namespace, repository |-> r.diff.repository,
   valid |-> [p \in 1..Len(r.diff.valid) |-> r.actual[r.diff.valid[p]]],
   missing |-> [p \in 1..Len(r.diff.missing) |-> truth_list[r.diff.missing[p]]],
   extra |-> [p \in 1..Len(r.diff.extra) |-> r.actual[r.diff.extra[p]]],
   diff |-> [p \in 1..Len(r.diff.diff) |->
               LabelDelta(truth_list[r.diff.diff[p].spec],
                          r.actual[r.diff.diff[p].actual],
                          r.diff.diff[p].delta)]]

\* reports.create_json_report: json.dumps(diff.to_dict()); LabelDiff has no
\* attribute to_dict, so the call raises before any text exists
create_json_report(d) == [raised |-> "AttributeError", text |-> None]

\* LabelDiff.from_dict: the six entries of the dict handed to __init__ as
\* they are, the list entries stay what json.load made of them
from_dict(dict) ==
  LabelDiff(dict.namespace, dict.repository, dict.valid, dict.missing,
            dict.extra, dict.diff)

\* load_json_report: from_dict for every element of the loaded document
load_json_report(data) == [p \in 1..Len(data) |-> from_dict(data[p])]

\* one print() call
Printed(kind, repo, data) == [kind |-> kind, repository |-> repo, data |-> data]

\* _report: the exception it ends with ("": none) and what it prints
_report(fmt, ds) ==
  LET is_single_repo == Len(ds) = 1
      quiet == [raised |-> "", out |-> <<>>, err |-> <<>>]
      table == Printed("table", "", [p \in 1..Len(ds) |-> ds[p].repository])
      shown == SelectSeq(ds, LAMBDA d : is_single_repo \/ is_change(d))
      pages == [p \in 1..Len(shown) |->
                  Printed("report", shown[p].repository, shown[p])]
      failing == {p \in 1..Len(ds) : create_json_report(ds[p]).raised # ""}
      first == CHOOSE p \in failing : \A q \in failing : p <= q
  IN  CASE fmt = "markdown" ->
             IF is_single_repo THEN [quiet EXCEPT !.out = pages]
             ELSE IF Len(ds) = 0 THEN [quiet EXCEPT !.raised = "IndexError"]
             ELSE [quiet EXCEPT
                     !.out = <<Printed("heading", "", ds[1].namespace), table>>
                             \o pages]
        [] fmt = "summary" -> [quiet EXCEPT !.out = <<table>>]
        [] fmt = "json" ->
             IF failing # {}
             THEN [quiet EXCEPT !.raised = create_json_report(ds[first]).raised]
             ELSE IF is_single_repo
             THEN [quiet EXCEPT
                     !.out = <<Printed("json", "", create_json_report(ds[1]).text[1])>>]
             ELSE [quiet EXCEPT
                     !.out = <<Printed("json", "",
                                 [p \in 1..Len(ds) |->
                                    create_json_report(ds[p]).text[1]])>>]
        [] fmt = "none" -> quiet
        [] OTHER -> [quiet EXCEPT !.err = <<"Unsupported format">>]

\* the JSON body of a request: the keys whose value is not None
Body(fields) ==
  [k \in {f \in DOMAIN fields : fields[f] # None} |-> fields[k][1]]

\* github_api.create_label, delete_label, update_label: the request sent;
\* name is the label the request is about
create_label(ns, repo, name, description, color) ==
  [op |-> "create", namespace |-> ns, repository |-> repo, name |-> name,
   body |-> Body([name |-> Some(name), description |-> description,
                  color |-> color])]

delete_label(ns, repo, label) ==
  [op |-> "delete", namespace |-> ns, repository |-> repo, name |-> label,
   body |-> <<>>]

\* faulty variant of update_label: a description that is None is sent as ""
update_label_blank(ns, repo, old_name, new_name, description, color) ==
  [op |-> "update", namespace |-> ns, repository |-> repo, name |-> old_name,
   body |-> Body([new_name |-> new_name,
                  description |-> IF description = None THEN Some("")
                                  ELSE description,
                  color |-> color])]

update_label(ns, repo, old_name, new_name, description, color) ==
  [op |-> "update", namespace |-> ns, repository |-> repo, name |-> old_name,
   body |-> Body([new_name |-> new_name, description |-> description,
                  color |-> color])]

\* apply_create, apply_delete, apply_modify: the call of every entry, in order
apply_create(d) ==
  [p \in 1..Len(d.missing) |->
     create_label(d.namespace, d.repository, d.missing[p].name,
                  d.missing[p].description, d.missing[p].color)]

apply_delete(d) ==
  [p \in 1..Len(d.extra) |->
     delete_label(d.namespace, d.repository, d.extra[p].name)]

\* faulty variant of apply_modify: the observed values are sent
apply_modify_observed(d) ==
  [p \in 1..Len(d.diff) |->
     update_label(d.namespace, d.repository, d.diff[p].actual.name, None,
                  d.diff[p].actual.description, d.diff[p].actual.color)]

\* update_label is called without new_name, which is None by default
apply_modify(d) ==
  [p \in 1..Len(d.diff) |->
     update_label(d.namespace, d.repository, d.diff[p].actual.name, None,
                  d.diff[p].spec.description, d.diff[p].spec.color)]

\* _apply: the entries the selected actions go through
_apply(a, d) ==
  (IF a.create THEN apply_create(d) ELSE <<>>)
  \o (IF a.delete THEN apply_delete(d) ELSE <<>>)
  \o (IF a.modify THEN apply_modify(d) ELSE <<>>)

\* the loops of apply_*: every entry is reported, the confirmed ones are
\* called, an error answer is printed and the loop goes on
Applied(a, d, answers, rejected) ==
  LET entries == _apply(a, d)
      picks == SelectSeq([p \in 1..Len(entries) |-> p],
                         LAMBDA p : a.assumeyes \/ answers[p])
      issued == [q \in 1..Len(picks) |-> entries[picks[q]]]
  IN  [calls |-> issued,
       out |-> [p \in 1..Len(entries) |->
                  Printed(IF entries[p].op = "update" THEN "modify"
                          ELSE entries[p].op,
                          entries[p].repository, entries[p].name)],
       err |-> IF rejected THEN [q \in 1..Len(issued) |-> "Resource not found"]
               ELSE <<>>]

\* the answers _confirm can return for the entries (not asked with assumeyes)
Answers(a, d) ==
  IF a.assumeyes THEN {[p \in 1..Len(_apply(a, d)) |-> TRUE]}
  ELSE [1..Len(_apply(a, d)) -> BOOLEAN]

\* the label file of the run and what the repositories can hold
CliTruth ==
  <<LabelSpec("bug", None, Some("d73a4a"), FALSE, <<>>),
    LabelSpec("feature", None, Some("0e8a16"), FALSE, <<>>)>>

CliLabelLists ==
  {<<>>,
   <<Label("bug", None, Some("d73a4a")), Label("feature", None, Some("0e8a16"))>>,
   <<Label("bug", Some("Something is wrong"), Some("ffffff")),
     Label("question", None, None)>>}

\* a repository of the remote: its listing entry and what fetch_labels
\* answers for it (err None: the labels)
Repo(i, shape) ==
  [name |-> RepoNames[i], owner |-> [login |-> "octo"],
   archived |-> shape.archived, err |-> shape.err, labels |-> shape.labels]

RepoShapes ==
  {[archived |-> ar, err |-> None, labels |-> l] :
     ar \in BOOLEAN, l \in CliLabelLists}
  \cup {[archived |-> ar, err |-> Some("Not found"), labels |-> <<>>] :
          ar \in BOOLEAN}

RepoLists(n) ==
  UNION {{[i \in 1..k |-> Repo(i, f[i])] : f \in [1..k -> RepoShapes]} :
           k \in 0..n}

ProcessIdle ==
  /\ repo_i = 1 /\ diffs = <<>> /\ calls = <<>>
  /\ stdout = <<>> /\ stderr = <<>> /\ exit_code = -1 /\ raised = ""

\* main: the parsed command line, before the command function is called
InitCli ==
  /\ truth = CliTruth /\ actual = <<>>
  /\ namespace = "octo"
  /\ rename_alias = FALSE /\ require_optional = FALSE
  /\ pc = "cli"
  /\ Locals /\ changed = FALSE
  /\ \/ /\ command = "report"
        /\ report_format \in Formats
        /\ args = NoArgs
        /\ rejects = FALSE
     \/ /\ command = "sync"
        /\ report_format = ""
        /\ args \in {a \in [create : BOOLEAN, delete : BOOLEAN,
                            modify : BOOLEAN, assumeyes : BOOLEAN] :
                       a.create \/ a.delete \/ a.modify}
        /\ rejects \in BOOLEAN
  /\ \/ /\ repository = ""
        /\ \/ repos_err = None /\ repos \in RepoLists(MaxRepos)
           \/ repos_err = Some("Unknown error") /\ repos = <<>>
     \/ /\ repository = RepoNames[1]
        /\ repos_err = None
        /\ repos \in {r \in RepoLists(1) : Len(r) = 1}
  /\ ProcessIdle
  /\ ApplyingIdle /\ PagingIdle

Engine == <<Args, actual, true_label, actual_label, found_label, valid,
            missing, extra, diff, result, changed>>

\* what create_diff returns for the repository at position i
DiffOf(i) ==
  Resolved(truth, create_diff(truth, repos[i].labels, repos[i].owner.login,
                              repos[i].name, rename_alias, require_optional))

\* command_*_namespace: fetch_repositories failed
CliFetchRepositoriesFail ==
  /\ pc = "cli" /\ repository = ""
  /\ repos_err # None
  /\ stderr' = Append(stderr, repos_err[1])
  /\ exit_code' = 1
  /\ pc' = "exited"
  /\ UNCHANGED <<Engine, Paging, Applying, Settings, repo_i, diffs, calls, stdout, raised>>

\* command_*_namespace: fetch_repositories succeeded, the loop starts
CliFetchRepositories ==
  /\ pc = "cli" /\ repository = ""
  /\ repos_err = None
  /\ pc' = "repos"
  /\ UNCHANGED <<Engine, Paging, Applying, Settings, Process>>

\* the loop: an archived repository is passed over
CliSkipArchived ==
  /\ pc = "repos" /\ repo_i <= Len(repos)
  /\ repos[repo_i].archived
  /\ repo_i' = repo_i + 1
  /\ UNCHANGED <<Engine, Paging, Applying, Settings, pc, diffs, calls, stdout, stderr, exit_code, raised>>

\* faulty variant of CliFetchLabelsFail: the repository is passed over
CliFetchLabelsFailContinue ==
  /\ pc = "repos" /\ repo_i <= Len(repos)
  /\ ~repos[repo_i].archived
  /\ repos[repo_i].err # None
  /\ stderr' = Append(stderr, repos[repo_i].err[1])
  /\ repo_i' = repo_i + 1
  /\ UNCHANGED <<Engine, Paging, Applying, Settings, pc, diffs, calls, stdout, exit_code, raised>>

\* the loop: fetch_labels failed, the error is printed and the process exits
CliFetchLabelsFail ==
  /\ pc = "repos" /\ repo_i <= Len(repos)
  /\ ~repos[repo_i].archived
  /\ repos[repo_i].err # None
  /\ stderr' = Append(stderr, repos[repo_i].err[1])
  /\ exit_code' = 1
  /\ pc' = "exited"
  /\ UNCHANGED <<Engine, Paging, Applying, Settings, repo_i, diffs, calls, stdout, raised>>

\* command_report_namespace, the loop: the repository's diff is kept
CliReportRepo ==
  /\ pc = "repos" /\ repo_i <= Len(repos)
  /\ command = "report"
  /\ ~repos[repo_i].archived
  /\ repos[repo_i].err = None
  /\ diffs' = Append(diffs, DiffOf(repo_i))
  /\ repo_i' = repo_i + 1
  /\ UNCHANGED <<Engine, Paging, Applying, Settings, pc, calls, stdout, stderr, exit_code, raised>>

\* command_sync_namespace, the loop: the repository's diff is applied
CliSyncRepo ==
  /\ pc = "repos" /\ repo_i <= Len(repos)
  /\ command = "sync"
  /\ ~repos[repo_i].archived
  /\ repos[repo_i].err = None
  /\ \E answers \in Answers(args, DiffOf(repo_i)) :
       LET done == Applied(args, DiffOf(repo_i), answers, rejects)
       IN  /\ calls' = calls \o done.calls
           /\ stdout' = stdout \o done.out
           /\ stderr' = stderr \o done.err
  /\ repo_i' = repo_i + 1
  /\ UNCHANGED <<Engine, Paging, Applying, Settings, pc, diffs, exit_code, raised>>

\* how the process ends after _report
Reported(r) ==
  /\ stdout' = stdout \o r.out
  /\ stderr' = stderr \o r.err
  /\ raised' = r.raised
  /\ exit_code' = IF r.raised # "" THEN 1 ELSE 0
  /\ pc' = "exited"

\* command_report_namespace, after the loop: _report(args.format, diffs)
CliReportEnd ==
  /\ pc = "repos" /\ repo_i > Len(repos)
  /\ command = "report"
  /\ Reported(_report(report_format, diffs))
  /\ UNCHANGED <<Engine, Paging, Applying, Settings, repo_i, diffs, calls>>

\* command_sync_namespace, after the loop
CliSyncEnd ==
  /\ pc = "repos" /\ repo_i > Len(repos)
  /\ command = "sync"
  /\ exit_code' = 0
  /\ pc' = "exited"
  /\ UNCHANGED <<Engine, Paging, Applying, Settings, repo_i, diffs, calls, stdout, stderr, raised>>

\* command_*_repository: fetch_labels failed
CliRepositoryFetchFail ==
  /\ pc = "cli" /\ repository # ""
  /\ repos[1].err # None
  /\ stderr' = Append(stderr, repos[1].err[1])
  /\ exit_code' = 1
  /\ pc' = "exited"
  /\ UNCHANGED <<Engine, Paging, Applying, Settings, repo_i, diffs, calls, stdout, raised>>

\* command_report_repository: _report(args.format, [diff])
CliReportRepository ==
  /\ pc = "cli" /\ repository # ""
  /\ command = "report"
  /\ repos[1].err = None
  /\ diffs' = <<DiffOf(1)>>
  /\ Reported(_report(report_format, <<DiffOf(1)>>))
  /\ UNCHANGED <<Engine, Paging, Applying, Settings, repo_i, calls>>

\* command_sync_repository: _apply(args, diff)
CliSyncRepository ==
  /\ pc = "cli" /\ repository # ""
  /\ command = "sync"
  /\ repos[1].err = None
  /\ \E answers \in Answers(args, DiffOf(1)) :
       LET done == Applied(args, DiffOf(1), answers, rejects)
       IN  /\ calls' = calls \o done.calls
           /\ stdout' = stdout \o done.out
           /\ stderr' = stderr \o done.err
  /\ exit_code' = 0
  /\ pc' = "exited"
  /\ UNCHANGED <<Engine, Paging, Applying, Settings, repo_i, diffs, raised>>

NextCli ==
  \/ CliFetchRepositoriesFail
  \/ CliFetchRepositories
  \/ CliSkipArchived
  \/ CliFetchLabelsFail
  \/ CliReportRepo
  \/ CliSyncRepo
  \/ CliReportEnd
  \/ CliSyncEnd
  \/ CliRepositoryFetchFail
  \/ CliReportRepository
  \/ CliSyncRepository

SpecCli == InitCli /\ [][NextCli]_vars

\* ------------------------------------------------ the loops of actions.py
MaxReprompts == 1

DefaultColor == Some("ededed")
ErrorCodes == {404, 422, 500}

\* what create_label / delete_label / update_label return as error for a
\* status code that is not 2xx
ErrorOf(op, code) ==
  CASE code = 404 -> IF op = "create" THEN "Resource not found" ELSE "Not found"
    [] code = 422 /\ op # "delete" -> "Validation failed"
    [] OTHER -> "Unknown error"

\* the remote after a request it answered with 2xx: create adds the label,
\* delete removes it, update overwrites the fields of the body
Overwritten(l, body) ==
  [name |-> IF "new_name" \in DOMAIN body THEN body.new_name ELSE l.name,
   description |-> IF "description" \in DOMAIN body THEN Some(body.description)
                   ELSE l.description,
   color |-> IF "color" \in DOMAIN body THEN Some(body.color) ELSE l.color,
   resolved_alias |-> 0]

RemoteAfter(labels, req) ==
  CASE req.op = "create" ->
         Append(labels,
                Overwritten(Label(req.name, None, DefaultColor), req.body))
    [] req.op = "delete" -> SelectSeq(labels, LAMBDA l : l.name # req.name)
    [] OTHER ->
         [p \in 1..Len(labels) |->
            IF labels[p].name = req.name THEN Overwritten(labels[p], req.body)
            ELSE labels[p]]

\* a label list as fetch_labels builds it: Label.from_dict of every item
Fetched(labels) ==
  [p \in 1..Len(labels) |->
     Label(labels[p].name, labels[p].description, labels[p].color)]

\* _confirm: what an answer does ("again": the prompt is repeated)
Lower(answer) ==
  CASE answer = "Y" -> "y" [] answer = "N" -> "n" [] OTHER -> answer

Typed == {"y", "Y", "", "n", "N", "yes"}

_confirm(answer) ==
  IF Lower(answer) = "n" THEN "no"
  ELSE IF Lower(answer) = "y" \/ Lower(answer) = "" THEN "yes"
  ELSE "again"

\* the label files and repositories of the runs
ApplyTruths ==
  {<<LabelSpec("bug", d, c, FALSE, al)>> \o rest :
     d \in {None, Some("Something is wrong")},
     c \in {None, Some("d73a4a")},
     al \in {<<>>, <<"defect">>},
     rest \in {<<>>, <<LabelSpec("feature", Some("New"), None, FALSE, <<>>)>>}}

ApplyRemotes ==
  {<<>>,
   <<Label("bug", None, Some("ffffff"))>>,
   <<Label("bug", Some("Something is wrong"), Some("d73a4a")),
     Label("question", None, None)>>,
   <<Label("defect", Some("old"), Some("ffffff"))>>,
   <<Label("question", None, None), Label("defect", None, Some("d73a4a"))>>}

ActionArgs ==
  {a \in [create : BOOLEAN, delete : BOOLEAN, modify : BOOLEAN,
          assumeyes : BOOLEAN] : a.create \/ a.delete \/ a.modify}

\* command_sync_repository is called
InitApply ==
  /\ truth \in ApplyTruths /\ actual = <<>>
  /\ namespace = "octo" /\ repository = "hello"
  /\ rename_alias \in BOOLEAN /\ require_optional = FALSE
  /\ pc = "sync"
  /\ Locals /\ changed = FALSE
  /\ command = "sync" /\ report_format = "" /\ args \in ActionArgs
  /\ repos = <<>> /\ repos_err = None /\ rejects = FALSE
  /\ ProcessIdle
  /\ remote \in ApplyRemotes
  /\ phase = "" /\ entry_i = 1 /\ asked = 0 /\ log = <<>>
  /\ PagingIdle

\* the list an apply_* function goes through and its calls
ListOf(d, ph) ==
  CASE ph = "create" -> d.missing [] ph = "delete" -> d.extra [] OTHER -> d.diff

CallsOf(d, ph) ==
  CASE ph = "create" -> apply_create(d)
    [] ph = "delete" -> apply_delete(d)
    [] OTHER -> apply_modify(d)

\* _apply: the function after ph ("": _apply returns)
After(ph) ==
  CASE ph = "create" -> "delete" [] ph = "delete" -> "modify" [] OTHER -> ""

ActionOf(ph) == IF ph = "update" THEN "modify" ELSE ph

Event(ev, ph, i) == [ev |-> ev, phase |-> ph, entry |-> i]

\* command_sync_repository: the labels are fetched, the diff computed and
\* _apply entered
SyncDiff ==
  /\ pc = "sync"
  /\ diffs' = <<Resolved(truth, create_diff(truth, Fetched(remote), namespace,
                                            repository, rename_alias,
                                            require_optional))>>
  /\ phase' = "create" /\ entry_i' = 1
  /\ pc' = "apply"
  /\ UNCHANGED <<Engine, Paging, Settings, repo_i, calls, stdout, stderr, exit_code,
                 raised, remote, asked, log>>

\* _apply: the action of the function is not selected
ApplySkip ==
  /\ pc = "apply" /\ phase # ""
  /\ ~args[phase]
  /\ phase' = After(phase)
  /\ UNCHANGED <<Engine, Paging, Settings, Process, pc, remote, entry_i, asked, log>>

\* apply_*: the loop is through
ApplyReturn ==
  /\ pc = "apply" /\ phase # ""
  /\ args[phase]
  /\ entry_i > Len(ListOf(diffs[1], phase))
  /\ phase' = After(phase) /\ entry_i' = 1
  /\ UNCHANGED <<Engine, Paging, Settings, Process, pc, remote, asked, log>>

\* apply_*: the next entry is reported; with yes the call comes next
ApplyReport ==
  /\ pc = "apply" /\ phase # ""
  /\ args[phase]
  /\ entry_i <= Len(ListOf(diffs[1], phase))
  /\ stdout' = Append(stdout,
                      Printed(ActionOf(CallsOf(diffs[1], phase)[entry_i].op),
                              diffs[1].repository,
                              CallsOf(diffs[1], phase)[entry_i].name))
  /\ log' = Append(log, Event("report", phase, entry_i))
  /\ pc' = IF args.assumeyes THEN "call" ELSE "confirm"
  /\ UNCHANGED <<Engine, Paging, Settings, repo_i, diffs, calls, stderr, exit_code,
                 raised, remote, phase, entry_i, asked>>

\* _confirm: the answer is y or empty
ConfirmYes ==
  /\ pc = "confirm"
  /\ \E answer \in Typed : _confirm(answer) = "yes"
  /\ log' = Append(log, Event("yes", phase, entry_i))
  /\ asked' = 0
  /\ pc' = "call"
  /\ UNCHANGED <<Engine, Paging, Settings, Process, remote, phase, entry_i>>

\* faulty variant of ConfirmNo: the call is made all the same
ConfirmNoCalls ==
  /\ pc = "confirm"
  /\ \E answer \in Typed : _confirm(answer) = "no"
  /\ log' = Append(log, Event("no", phase, entry_i))
  /\ asked' = 0
  /\ pc' = "call"
  /\ UNCHANGED <<Engine, Paging, Settings, Process, remote, phase, entry_i>>

\* _confirm: the answer is n, the entry is passed over
ConfirmNo ==
  /\ pc = "confirm"
  /\ \E answer \in Typed : _confirm(answer) = "no"
  /\ log' = Append(log, Event("no", phase, entry_i))
  /\ asked' = 0
  /\ entry_i' = entry_i + 1
  /\ pc' = "apply"
  /\ UNCHANGED <<Engine, Paging, Settings, Process, remote, phase>>

\* _confirm: any other answer, the prompt is repeated
ConfirmAgain ==
  /\ pc = "confirm"
  /\ asked < MaxReprompts
  /\ \E answer \in Typed : _confirm(answer) = "again"
  /\ log' = Append(log, Event("again", phase, entry_i))
  /\ asked' = asked + 1
  /\ UNCHANGED <<Engine, Paging, Settings, Process, pc, remote, phase, entry_i>>

\* apply_*: the call of the entry is answered with 2xx
CallDone ==
  /\ pc = "call"
  /\ calls' = Append(calls, CallsOf(diffs[1], phase)[entry_i])
  /\ remote' = RemoteAfter(remote, CallsOf(diffs[1], phase)[entry_i])
  /\ log' = Append(log, Event("call", phase, entry_i))
  /\ entry_i' = entry_i + 1
  /\ pc' = "apply"
  /\ UNCHANGED <<Engine, Paging, Settings, repo_i, diffs, stdout, stderr, exit_code,
                 raised, phase, asked>>

\* faulty variant of CallFailed: the function returns at the first error
CallFailedReturn ==
  /\ pc = "call"
  /\ \E code \in ErrorCodes :
       stderr' = Append(stderr,
                        ErrorOf(CallsOf(diffs[1], phase)[entry_i].op, code))
  /\ calls' = Append(calls, CallsOf(diffs[1], phase)[entry_i])
  /\ log' = Append(log, Event("failed", phase, entry_i))
  /\ entry_i' = Len(ListOf(diffs[1], phase)) + 1
  /\ pc' = "apply"
  /\ UNCHANGED <<Engine, Paging, Settings, repo_i, diffs, stdout, exit_code, raised,
                 remote, phase, asked>>

\* apply_*: the call of the entry is answered with an error, which is
\* printed; the loop goes on
CallFailed ==
  /\ pc = "call"
  /\ \E code \in ErrorCodes :
       stderr' = Append(stderr,
                        ErrorOf(CallsOf(diffs[1], phase)[entry_i].op, code))
  /\ calls' = Append(calls, CallsOf(diffs[1], phase)[entry_i])
  /\ log' = Append(log, Event("failed", phase, entry_i))
  /\ entry_i' = entry_i + 1
  /\ pc' = "apply"
  /\ UNCHANGED <<Engine, Paging, Settings, repo_i, diffs, stdout, exit_code, raised,
                 remote, phase, asked>>

\* _apply has returned: the command ends
SyncEnd ==
  /\ pc = "apply" /\ phase = ""
  /\ exit_code' = 0
  /\ pc' = "exited"
  /\ UNCHANGED <<Engine, Paging, Settings, Applying, repo_i, diffs, calls, stdout,
                 stderr, raised>>

NextApply ==
  \/ SyncDiff
  \/ ApplySkip
  \/ ApplyReturn
  \/ ApplyReport
  \/ ConfirmYes
  \/ ConfirmNo
  \/ ConfirmAgain
  \/ CallDone
  \/ CallFailed
  \/ SyncEnd

SpecApply == InitApply /\ [][NextApply]_vars

\* ------------------------------------------------- two sync runs in a row
SyncSpecValues ==
  {LabelSpec(n, d, c, FALSE, al) :
     n \in Names, d \in {None, Some("")},
     c \in {None, Some("d73a4a"), Some("0e8a16")},
     al \in SeqsUpTo(Names, 1)}

SyncLabelValues ==
  {Label(n, None, Some("d73a4a")) : n \in Names \cup {"question"}}

\* the remote after the requests of a sequence, all answered with 2xx
RECURSIVE RemoteAfterAll(_, _, _)
RemoteAfterAll(labels, reqs, n) ==
  IF n = 0 THEN labels
  ELSE RemoteAfter(RemoteAfterAll(labels, reqs, n - 1), reqs[n])

InitSync ==
  /\ truth \in SeqsUpTo(SyncSpecValues, MaxTruth) /\ actual = <<>>
  /\ namespace = "octo" /\ repository = "hello"
  /\ rename_alias \in BOOLEAN /\ require_optional = FALSE
  /\ pc = "sync"
  /\ Locals /\ changed = FALSE
  /\ command = "sync" /\ report_format = ""
  /\ args \in {a \in ActionArgs : a.create /\ a.delete /\ a.modify}
  /\ repos = <<>> /\ repos_err = None /\ rejects = FALSE
  /\ ProcessIdle
  /\ remote \in SeqsUpTo(SyncLabelValues, MaxActual)
  /\ phase = "" /\ entry_i = 1 /\ asked = 0 /\ log = <<>>
  /\ PagingIdle

\* command_sync_repository, from fetch_labels to the end of _apply; actual
\* keeps the label list of the run
SyncRun ==
  /\ pc = "sync"
  /\ LET r == create_diff(truth, Fetched(remote), namespace, repository,
                          rename_alias, require_optional)
         d == Resolved(truth, r)
     IN  /\ actual' = r.actual
         /\ diffs' = <<d>>
         /\ \E answers \in Answers(args, d) :
              LET done == Applied(args, d, answers, rejects)
              IN  /\ calls' = done.calls
                  /\ stdout' = done.out
                  /\ stderr' = done.err
                  /\ remote' = IF rejects THEN remote
                               ELSE RemoteAfterAll(remote, done.calls,
                                                   Len(done.calls))
  /\ pc' = "synced"
  /\ UNCHANGED <<Args, Paging, Settings, true_label, actual_label, found_label, valid,
                 missing, extra, diff, result, changed, repo_i, exit_code,
                 raised, phase, entry_i, asked, log>>

\* the command is run again: fetch_labels and create_diff on what the remote
\* holds now
SyncAgain ==
  /\ pc = "synced"
  /\ LET d == Resolved(truth, create_diff(truth, Fetched(remote), namespace,
                                          repository, rename_alias,
                                          require_optional))
     IN  /\ diffs' = Append(diffs, d)
         /\ changed' = is_change(d)
  /\ pc' = "resynced"
  /\ UNCHANGED <<Args, Paging, Settings, Applying, actual, true_label, actual_label,
                 found_label, valid, missing, extra, diff, result, repo_i,
                 calls, stdout, stderr, exit_code, raised>>

NextSync == SyncRun \/ SyncAgain

SpecSync == InitSync /\ [][NextSync]_vars

\* ---------------------------------------------- fetch_paginated_json
MaxPages == 3
\* the fetches of one call that are followed
MaxFetches == MaxPages + 1

\* a Link header: its <url>; rel="..." entries in order; a url is a page
Link(url, rel) == [url |-> url, rel |-> rel]

LinkHeaders ==
  {<<>>, <<Link(1, "prev")>>}
  \cup {<<Link(j, "next")>> : j \in 1..MaxPages}
  \cup {<<Link(1, "prev"), Link(j, "next")>> : j \in 1..MaxPages}
  \cup UNION {{<<Link(j, "next"), Link(k, "next")>> :
                  k \in (1..MaxPages) \ {j}} : j \in 1..MaxPages}

\* parse_link_header: the url of each rel, a later entry replacing an earlier
parse_link_header(header) ==
  [r \in {header[p].rel : p \in 1..Len(header)} |->
     header[CHOOSE p \in 1..Len(header) :
              /\ header[p].rel = r
              /\ \A q \in 1..Len(header) : header[q].rel = r => q <= p].url]

\* the response of a page: status code, kind of body, the items of a list
\* body, the Link header (None: no such header)
Response(code, body, items, link) ==
  [code |-> code, body |-> body, items |-> items, link |-> link]

Responses(i) ==
  {Response(200, "list", items, link) :
     items \in {<<>>, <<10 * i>>},
     link \in {None} \cup {Some(h) : h \in LinkHeaders}}
  \cup {Response(code, "object", <<>>, None) : code \in {200, 404, 500}}
  \cup {Response(code, "text", <<>>, None) : code \in {200, 502}}

\* the responses of pages 1..n
RECURSIVE Listings(_)
Listings(n) ==
  IF n = 0 THEN {<<>>}
  ELSE {Append(l, r) : l \in Listings(n - 1), r \in Responses(n)}

Success(code) == code >= 200 /\ code < 300

\* fetch_paginated_json is called for the first page
InitPages ==
  /\ truth = <<>> /\ actual = <<>>
  /\ namespace = "octo" /\ repository = "hello"
  /\ rename_alias = FALSE /\ require_optional = FALSE
  /\ pc = "fetching"
  /\ Locals /\ changed = FALSE
  /\ command = "" /\ report_format = "" /\ args = NoArgs
  /\ repos = <<>> /\ repos_err = None /\ rejects = FALSE
  /\ ProcessIdle /\ ApplyingIdle
  /\ listing \in Listings(MaxPages)
  /\ endpoint = 1 /\ content = <<>> /\ visited = <<>> /\ returned = <<>>

Fetching == pc = "fetching" /\ Len(visited) < MaxFetches

\* fetch_json: the body is not JSON, the process exits
FetchExit ==
  /\ Fetching
  /\ listing[endpoint].body = "text"
  /\ visited' = Append(visited, endpoint)
  /\ stderr' = Append(stderr, "Failed to decode API response!")
  /\ exit_code' = 1
  /\ pc' = "exited"
  /\ UNCHANGED <<Engine, Settings, Applying, repo_i, diffs, calls, stdout,
                 raised, listing, endpoint, content, returned>>

\* faulty variant of FetchError: the items of the earlier pages are returned
FetchErrorKeeps ==
  /\ Fetching
  /\ listing[endpoint].body # "text"
  /\ ~Success(listing[endpoint].code)
  /\ visited' = Append(visited, endpoint)
  /\ returned' = <<[data |-> content,
                    err |-> IF listing[endpoint].code = 404
                            THEN Some("Resource not found")
                            ELSE Some("Unknown error")]>>
  /\ pc' = "returned"
  /\ UNCHANGED <<Engine, Settings, Applying, Process, listing, endpoint, content>>

\* the page answers with a code that is not 2xx
FetchError ==
  /\ Fetching
  /\ listing[endpoint].body # "text"
  /\ ~Success(listing[endpoint].code)
  /\ visited' = Append(visited, endpoint)
  /\ returned' = <<[data |-> <<>>,
                    err |-> IF listing[endpoint].code = 404
                            THEN Some("Resource not found")
                            ELSE Some("Unknown error")]>>
  /\ pc' = "returned"
  /\ UNCHANGED <<Engine, Settings, Applying, Process, listing, endpoint, content>>

\* the page answers 2xx with JSON that is not a list: the assert fails
FetchAssert ==
  /\ Fetching
  /\ listing[endpoint].body = "object"
  /\ Success(listing[endpoint].code)
  /\ visited' = Append(visited, endpoint)
  /\ raised' = "AssertionError"
  /\ exit_code' = 1
  /\ pc' = "exited"
  /\ UNCHANGED <<Engine, Settings, Applying, repo_i, diffs, calls, stdout,
                 stderr, listing, endpoint, content, returned>>

\* the page has no Link header or no next relation: the items are returned
FetchLast ==
  /\ Fetching
  /\ listing[endpoint].body = "list"
  /\ Success(listing[endpoint].code)
  /\ \/ listing[endpoint].link = None
     \/ /\ listing[endpoint].link # None
        /\ "next" \notin DOMAIN parse_link_header(listing[endpoint].link[1])
  /\ visited' = Append(visited, endpoint)
  /\ content' = content \o listing[endpoint].items
  /\ returned' = <<[data |-> content', err |-> None]>>
  /\ pc' = "returned"
  /\ UNCHANGED <<Engine, Settings, Applying, Process, listing, endpoint>>

\* the page has a next relation: its url is the next endpoint
FetchNext ==
  /\ Fetching
  /\ listing[endpoint].body = "list"
  /\ Success(listing[endpoint].code)
  /\ listing[endpoint].link # None
  /\ "next" \in DOMAIN parse_link_header(listing[endpoint].link[1])
  /\ visited' = Append(visited, endpoint)
  /\ content' = content \o listing[endpoint].items
  /\ endpoint' = parse_link_header(listing[endpoint].link[1]).next
  /\ UNCHANGED <<Engine, Settings, Applying, Process, pc, listing, returned>>

NextPages ==
  \/ FetchExit
  \/ FetchError
  \/ FetchAssert
  \/ FetchLast
  \/ FetchNext

SpecPages == InitPages /\ [][NextPages]_vars

\* the loop of fetch_paginated_json keeps running while it can
SpecPagesFair == SpecPages /\ WF_vars(NextPages)

\* ------------------------------------------------------------ properties
Done == pc = "done"

Indices(n) == [x \in 1..n |-> x]
Range(seq) == {seq[p] : p \in 1..Len(seq)}
AliasSet(s) == Range(truth[s].alias)
TruthIdx == 1..Len(truth)
ActualIdx == 1..Len(actual)
DiffSpecs == {result.diff[p].spec : p \in 1..Len(result.diff)}
DiffActuals == {result.diff[p].actual : p \in 1..Len(result.diff)}

\* the label's name is the spec's name or one of its aliases
Names2(s, a) == actual[a].name = truth[s].name \/ actual[a].name \in AliasSet(s)
HasCounterpart(s) == \E a \in ActualIdx : Names2(s, a)
\* no earlier label has the same name
FirstOfName(a) == \A b \in 1..(a - 1) : actual[b].name # actual[a].name
\* no other spec has the label's name as name or alias
OnlyResolver(s, a) == \A s2 \in TruthIdx \ {s} : ~Names2(s2, a)

\* C1: when no observed name is the name or an alias of any spec, missing is
\* the specs in input order without the optional ones (unless
\* require_optional), extra is every observed label in input order, and valid
\* and diff are empty.
NoOverlap == \A s \in TruthIdx, a \in ActualIdx : ~Names2(s, a)

C1_DisjointInputs ==
  (Done /\ NoOverlap) =>
    /\ result.missing =
         SelectSeq(Indices(Len(truth)),
                   LAMBDA s : (~truth[s].optional) \/ require_optional)
    /\ result.extra = Indices(Len(actual))
    /\ result.valid = <<>>
    /\ result.diff = <<>>

C1_Witness ==
  /\ Done /\ NoOverlap /\ ~require_optional
  /\ Len(truth) = 2 /\ Len(actual) = 2
  /\ truth[1].optional /\ ~truth[2].optional
  /\ result.missing = <<2>> /\ result.extra = <<1, 2>>

\* C2 as claimed: whatever else the lists hold, a spec and a label with
\* identical name, description and color give: label in valid, spec neither
\* missing nor in diff, label neither extra nor in diff.
Identical(s, a) ==
  /\ truth[s].name = actual[a].name
  /\ truth[s].description = actual[a].description
  /\ truth[s].color = actual[a].color

C2_Original ==
  Done => \A s \in TruthIdx, a \in ActualIdx :
    Identical(s, a) =>
      /\ a \in Range(result.valid)
      /\ s \notin Range(result.missing) /\ s \notin DiffSpecs
      /\ a \notin Range(result.extra) /\ a \notin DiffActuals

\* C2 amended: the spec is never missing and the label never extra; when the
\* label is the first of its name it is in valid and the spec is in no diff
\* entry; when no other spec has the label's name as name or alias the label
\* is the actual of no diff entry.
C2_IdenticalPair ==
  Done => \A s \in TruthIdx, a \in ActualIdx :
    Identical(s, a) =>
      /\ s \notin Range(result.missing)
      /\ a \notin Range(result.extra)
      /\ FirstOfName(a) => (a \in Range(result.valid) /\ s \notin DiffSpecs)
      /\ OnlyResolver(s, a) => a \notin DiffActuals

C2_Witness ==
  /\ Done /\ Len(truth) = 2 /\ Len(actual) = 2
  /\ \E s \in TruthIdx, a \in ActualIdx :
       /\ Identical(s, a) /\ FirstOfName(a) /\ OnlyResolver(s, a)
       /\ truth[s].color # None
       /\ a \in Range(result.valid)
  /\ Len(result.diff) = 1

\* C3 as claimed: equal description and a declared, different color give
\* exactly one LabelDelta for the pair, with delta {COLOR}, and the label is
\* not in valid.
ColorOnly(s, a) ==
  /\ truth[s].name = actual[a].name /\ FirstOfName(a)
  /\ truth[s].description = actual[a].description
  /\ truth[s].color # None /\ truth[s].color # actual[a].color

EntriesOf(s, a) ==
  {p \in 1..Len(result.diff) : result.diff[p].spec = s /\ result.diff[p].actual = a}

OneColorDelta(s, a) ==
  /\ Cardinality(EntriesOf(s, a)) = 1
  /\ \A p \in EntriesOf(s, a) : result.diff[p].delta = <<COLOR>>

C3_Original ==
  Done => \A s \in TruthIdx, a \in ActualIdx :
    ColorOnly(s, a) => (OneColorDelta(s, a) /\ a \notin Range(result.valid))

\* C3 amended: exactly one LabelDelta for the pair, with delta {COLOR}; the
\* label is not in valid unless another spec has its name as name or alias.
C3_ColorOnly ==
  Done => \A s \in TruthIdx, a \in ActualIdx :
    ColorOnly(s, a) =>
      /\ OneColorDelta(s, a)
      /\ OnlyResolver(s, a) => a \notin Range(result.valid)

C3_Witness ==
  /\ Done
  /\ \E s \in TruthIdx, a \in ActualIdx :
       /\ ColorOnly(s, a) /\ OnlyResolver(s, a)
       /\ truth[s].description # None
       /\ actual[a].color # None
  /\ Len(result.diff) = 1 /\ result.valid = <<>>

\* C4: a spec without counterpart is in missing iff it is not optional or
\* require_optional holds, and is in no diff entry; the specs with a
\* counterpart are never missing and are the only ones that yield a valid or
\* diff entry.
C4_MissingPolicy ==
  Done =>
    /\ \A s \in TruthIdx :
         /\ s \in Range(result.missing) <=>
              (~HasCounterpart(s) /\ ((~truth[s].optional) \/ require_optional))
         /\ ~HasCounterpart(s) => s \notin DiffSpecs
    /\ Len(result.valid) + Len(result.diff) =
         Cardinality({s \in TruthIdx : HasCounterpart(s)})

C4_Witness ==
  /\ Done /\ Len(truth) = 2 /\ Len(actual) = 1
  /\ ~HasCounterpart(1) /\ truth[1].optional /\ truth[1].alias # <<>>
  /\ HasCounterpart(2)
  /\ ~require_optional
  /\ result.missing = <<>>

\* ---- the state right after a pass 1 iteration: the spec just handled, its
\* counterpart, and the delta list the iteration computed
AfterIteration == pc = "pass1" /\ true_label > 1
Handled == true_label - 1
Matched == AfterIteration /\ found_label # 0
LastDelta ==
  IF Len(diff) > 0 /\ diff[Len(diff)].spec = Handled
  THEN Range(diff[Len(diff)].delta) ELSE {}
HasName(n) == \E a \in ActualIdx : actual[a].name = n

\* C5: a spec matched only through an alias, whose declared description and
\* color do not differ: without rename_alias the iteration appends the label
\* to valid, sets its resolved_alias to the spec and adds no diff entry; with
\* rename_alias it appends a LabelDelta of the pair whose delta has NAME and
\* leaves valid alone.
\* the label an alias-only match resolves to: first label named by the
\* earliest alias that names any label
AliasTarget(s, a) ==
  /\ FirstOfName(a)
  /\ \E i \in 1..Len(truth[s].alias) :
       /\ truth[s].alias[i] = actual[a].name
       /\ \A j \in 1..(i - 1) : ~HasName(truth[s].alias[j])

NoFieldDiffers(s, a) ==
  /\ truth[s].description = None \/ truth[s].description = actual[a].description
  /\ truth[s].color = None \/ truth[s].color = actual[a].color

AliasOnly(s, a) ==
  /\ ~HasName(truth[s].name) /\ AliasTarget(s, a) /\ NoFieldDiffers(s, a)

C5_Step ==
  (pc = "pass1" /\ true_label <= Len(truth)) =>
    \A a \in ActualIdx :
      AliasOnly(true_label, a) =>
        IF rename_alias
        THEN /\ valid' = valid
             /\ Len(diff') = Len(diff) + 1
             /\ diff'[Len(diff')].spec = true_label
             /\ diff'[Len(diff')].actual = a
             /\ NAME \in Range(diff'[Len(diff')].delta)
        ELSE /\ valid' = Append(valid, a)
             /\ actual'[a].resolved_alias = true_label
             /\ diff' = diff

C5_AliasMatch == [][C5_Step]_vars

C5_Witness ==
  /\ Matched /\ ~rename_alias
  /\ truth[Handled].name # actual[found_label].name
  /\ truth[Handled].color # None
  /\ valid = <<found_label>> /\ diff = <<>>
  /\ actual[found_label].resolved_alias = Handled

\* C6 as claimed: with a declared description, None counts as "" on both
\* sides, and DESCRIPTION is in the delta exactly when the descriptions so
\* normalized differ.
Normalized(d) == IF d = None THEN Some("") ELSE d

C6_Normalized ==
  (Matched /\ truth[Handled].description # None) =>
    (DESCRIPTION \in LastDelta <=>
       Normalized(truth[Handled].description)
         # Normalized(actual[found_label].description))

\* C7: an undeclared (None) description or color of the spec never yields
\* DESCRIPTION or COLOR; a declared empty string is compared as it is.
C7_DeclaredFields ==
  Matched =>
    LET s == truth[Handled]
        l == actual[found_label]
    IN  /\ s.description = None => DESCRIPTION \notin LastDelta
        /\ s.color = None => COLOR \notin LastDelta
        /\ s.description = Some("") =>
             (DESCRIPTION \in LastDelta <=> l.description # Some(""))
        /\ s.color = Some("") => (COLOR \in LastDelta <=> l.color # Some(""))

C7_Witness ==
  /\ Matched
  /\ truth[Handled].description = None
  /\ actual[found_label].description = Some("Something is wrong")
  /\ truth[Handled].color = Some("")
  /\ actual[found_label].color = None
  /\ LastDelta = {COLOR}

\* C8: when a label has the spec's name, the first such label is the
\* counterpart, whatever labels the aliases name; a counterpart with another
\* name means no label has the spec's name.
C8_NameFirst ==
  AfterIteration =>
    /\ HasName(truth[Handled].name) =>
         /\ found_label # 0
         /\ actual[found_label].name = truth[Handled].name
         /\ FirstOfName(found_label)
    /\ (found_label # 0 /\ actual[found_label].name # truth[Handled].name) =>
         ~HasName(truth[Handled].name)

C8_Witness ==
  /\ AfterIteration /\ Len(actual) = 2
  /\ actual[1].name \in AliasSet(Handled)
  /\ actual[1].name # truth[Handled].name
  /\ actual[2].name = truth[Handled].name
  /\ found_label = 2

\* C9: get_by_alias_reverse returns the first label named by the earliest
\* alias that names any label, the same name for every order of the label
\* list, and None iff no alias names a label.
Permuted(list, f) == [p \in 1..Len(list) |-> list[f[p]]]

C9_AliasOrder ==
  pc = "looked" =>
    /\ found_label = 0 <=> ~\E a \in ActualIdx : actual[a].name \in AliasSet(1)
    /\ found_label # 0 => AliasTarget(1, found_label)
    /\ \A f \in Permutations(ActualIdx) :
         LET other == get_by_alias_reverse(Permuted(actual, f), truth[1])
         IN  /\ other = 0 <=> found_label = 0
             /\ other # 0 => actual[f[other]].name = actual[found_label].name

C9_Witness ==
  /\ pc = "looked" /\ Len(actual) = 2 /\ Len(truth[1].alias) = 2
  /\ actual[1].name = truth[1].alias[2]
  /\ actual[2].name = truth[1].alias[1]
  /\ actual[1].name # actual[2].name
  /\ found_label = 2

\* C10: missing, the specs of diff and the producers of valid follow the
\* order of the spec list, and extra follows the order of the label list.
Increasing(seq) == \A p, q \in 1..Len(seq) : p < q => seq[p] < seq[q]
DiffSpecSeq == [p \in 1..Len(diff) |-> diff[p].spec]
\* the specs handled so far that went neither to missing nor to diff, in order
ValidProducers ==
  SelectSeq(Indices(IF pc = "pass1" THEN true_label - 1 ELSE Len(truth)),
            LAMBDA s : /\ HasCounterpart(s)
                       /\ s \notin Range(missing)
                       /\ s \notin Range(DiffSpecSeq))

C10_InputOrder ==
  pc \in {"pass1", "pass2", "done"} =>
    /\ Increasing(missing)
    /\ Increasing(DiffSpecSeq)
    /\ Increasing(extra)
    /\ Len(valid) = Len(ValidProducers)
    /\ \A p \in 1..Len(valid) : Names2(ValidProducers[p], valid[p])
    /\ Done => /\ result.missing = missing /\ result.extra = extra
               /\ result.valid = valid /\ result.diff = diff

C10_Witness ==
  /\ Done /\ result.valid = <<2, 1>>
  /\ truth[1].name # truth[2].name
  /\ truth[1].alias = <<>> /\ truth[2].alias = <<>>

\* C11: every LabelDelta of diff has a delta that is not empty, holds only
\* NAME, DESCRIPTION and COLOR, and holds none of them twice.
C11_DeltaShape ==
  \A p \in 1..Len(diff) :
    /\ Len(diff[p].delta) > 0
    /\ Range(diff[p].delta) \subseteq {NAME, DESCRIPTION, COLOR}
    /\ Cardinality(Range(diff[p].delta)) = Len(diff[p].delta)

C11_Witness ==
  /\ Done /\ Len(result.diff) = 1
  /\ result.diff[1].delta = <<DESCRIPTION, COLOR, NAME>>

\* C12: is_change() is true iff missing, extra or diff is not empty; valid,
\* namespace and repository play no part.
C12_IsChange ==
  pc = "asked" =>
    /\ changed <=>
         (result.missing # <<>> \/ result.extra # <<>> \/ result.diff # <<>>)
    /\ \A v \in {<<>>, <<1>>}, tg \in Targets :
         is_change([result EXCEPT !.valid = v, !.namespace = tg[1],
                                  !.repository = tg[2]]) = changed

C12_Witness ==
  /\ pc = "asked" /\ ~changed
  /\ Len(result.valid) = 2

\* C13: extra is exactly the labels, in order, whose name is no spec's name
\* and is in no spec's alias list.
C13_ExtraExact ==
  Done =>
    result.extra =
      SelectSeq(Indices(Len(actual)),
                LAMBDA a : \A s \in TruthIdx : ~Names2(s, a))

\* a label kept out of extra by the alias of a spec that matched another label
C13_Witness ==
  /\ Done /\ Len(truth) = 1 /\ Len(actual) = 2
  /\ actual[2].name = truth[1].name
  /\ actual[1].name # truth[1].name
  /\ actual[1].name \in AliasSet(1)
  /\ result.extra = <<>> /\ result.valid = <<2>>

\* the label pass 1 resolves the spec to: the first label of the spec's name,
\* or, when no label has that name, the alias target
CounterpartOf(s, a) ==
  \/ truth[s].name = actual[a].name /\ FirstOfName(a)
  \/ ~HasName(truth[s].name) /\ AliasTarget(s, a)

Classified(a) == a \in Range(result.valid) \/ a \in DiffActuals

\* C14 as claimed: every observed label is in valid, in diff (as actual) or
\* in extra.
C14_Original ==
  Done => \A a \in ActualIdx : Classified(a) \/ a \in Range(result.extra)

\* C14 amended: an observed label is in valid or diff exactly when it is the
\* pass 1 counterpart of some spec, and then it is not in extra; a label that a
\* spec names or aliases without resolving to it is in none of the lists.
C14_Classified ==
  Done => \A a \in ActualIdx :
    /\ Classified(a) <=> \E s \in TruthIdx : CounterpartOf(s, a)
    /\ Classified(a) => a \notin Range(result.extra)
    /\ ((\E s \in TruthIdx : Names2(s, a))
          /\ ~\E s \in TruthIdx : CounterpartOf(s, a))
         => (~Classified(a) /\ a \notin Range(result.extra))

C14_Witness ==
  /\ Done /\ Len(truth) = 1 /\ Len(actual) = 2
  /\ actual[1].name = truth[1].name
  /\ actual[2].name \in AliasSet(1)
  /\ actual[2].name # truth[1].name
  /\ Classified(1) /\ ~Classified(2) /\ result.extra = <<>>

\* C15 as claimed: no observed label is both in valid and the actual of a
\* diff entry.
C15_Original ==
  Done => Range(result.valid) \cap DiffActuals = {}

\* C15 amended: a label is both in valid and the actual of a diff entry only
\* when two different specs resolve to it; one spec never puts its
\* counterpart in both.
C15_ValidOrDiff ==
  Done => \A a \in Range(result.valid) \cap DiffActuals :
    \E s1, s2 \in TruthIdx :
      /\ s1 # s2 /\ CounterpartOf(s1, a) /\ CounterpartOf(s2, a)
      /\ s1 \in DiffSpecs /\ s2 \notin DiffSpecs

C15_Witness ==
  /\ Done /\ Len(truth) = 2 /\ Len(actual) = 1
  /\ CounterpartOf(1, 1) /\ ~Names2(2, 1)
  /\ DiffActuals = {1} /\ result.valid = <<>>

\* C18: create_diff always has a next step until it returns, every step
\* brings it nearer to the return, and the LabelDiff returned carries the
\* namespace and repository given.
Running == pc \in {"pass1", "pass2"}
StepsLeft ==
  IF pc = "pass1"
    THEN (Len(truth) + 1 - true_label) + (Len(actual) + 1 - actual_label) + 2
  ELSE IF pc = "pass2" THEN (Len(actual) + 1 - actual_label) + 1
  ELSE 0

C18_State ==
  /\ Running => ENABLED (Pass1Skip \/ Pass1Missing \/ Pass1Diff \/ Pass1Valid
                           \/ Pass1Exit \/ Pass2Extra \/ Pass2Found \/ Return)
  /\ Running => StepsLeft > 0
  /\ Done => /\ result.namespace = namespace
             /\ result.repository = repository
             /\ result.valid = valid /\ result.missing = missing
             /\ result.extra = extra /\ result.diff = diff

C18_Total == []C18_State /\ [][Running => StepsLeft' < StepsLeft]_vars

C18_Witness ==
  /\ Done /\ Len(truth) = 2 /\ Len(actual) = 2
  /\ truth[1].name = truth[2].name /\ truth[1].alias = <<>>
  /\ actual[1].name = actual[2].name
  /\ result.namespace = "octo" /\ result.repository = "hello"

\* C19: a step of create_diff changes none of its arguments, nor the length
\* or order of the label list or a label's name, description or color; the
\* one thing written is resolved_alias, of a label matched via an alias as it
\* is appended to valid.
C19_Step ==
  /\ truth' = truth
  /\ namespace' = namespace /\ repository' = repository
  /\ rename_alias' = rename_alias /\ require_optional' = require_optional
  /\ Len(actual') = Len(actual)
  /\ \A a \in ActualIdx :
       /\ actual'[a].name = actual[a].name
       /\ actual'[a].description = actual[a].description
       /\ actual'[a].color = actual[a].color
       /\ actual'[a].resolved_alias # actual[a].resolved_alias =>
            /\ pc = "pass1" /\ true_label <= Len(truth)
            /\ actual'[a].resolved_alias = true_label
            /\ truth[true_label].name # actual[a].name
            /\ actual[a].name \in AliasSet(true_label)
            /\ valid' = Append(valid, a)

C19_Frame == [][C19_Step]_vars

C19_Witness ==
  /\ Done /\ Len(truth) = 2 /\ Len(actual) = 2
  /\ actual[1].resolved_alias = 2 /\ actual[2].resolved_alias = 0
  /\ result.valid = <<1>> /\ result.missing = <<1>>

\* ---- the lists of the returned LabelDiff against each other
\* the returned LabelDiff as its callers read it
ResultRead == Resolved(truth, [diff |-> result, actual |-> actual])
CallNames(cs) == {cs[p].name : p \in 1..Len(cs)}
Occurrences(seq, x) == Cardinality({p \in 1..Len(seq) : seq[p] = x})
ResultDiffActuals == [p \in 1..Len(result.diff) |-> result.diff[p].actual]
ResultDiffSpecs == [p \in 1..Len(result.diff) |-> result.diff[p].spec]
UniqueNames(list) ==
  \A p, q \in 1..Len(list) : list[p].name = list[q].name => p = q
Skipped ==
  {s \in TruthIdx : ~HasCounterpart(s) /\ SkipOptional(truth[s], require_optional)}

\* C25: no label of extra is in valid or the actual of a diff entry, no spec
\* of missing is the spec of a diff entry, and the names apply_delete deletes
\* and the names apply_modify updates have nothing in common.
C25_Disjoint ==
  Done =>
    /\ \A a \in Range(result.extra) : ~Classified(a)
    /\ Range(result.missing) \cap DiffSpecs = {}
    /\ CallNames(apply_delete(ResultRead)) \cap CallNames(apply_modify(ResultRead)) = {}

C25_Witness ==
  /\ Done /\ Len(result.extra) > 0 /\ Len(result.diff) > 0
  /\ Len(apply_delete(ResultRead)) > 0 /\ Len(apply_modify(ResultRead)) > 0

\* C27 as claimed: with unique observed names, every label occurs at most
\* once in valid and the actuals of diff taken together.
C27_Original ==
  (Done /\ UniqueNames(actual)) =>
    \A a \in ActualIdx :
      Occurrences(result.valid, a) + Occurrences(ResultDiffActuals, a) <= 1

\* C27 amended: with unique observed names, a label occurs in valid and the
\* actuals of diff once for every spec that pass 1 resolves to it, so at most
\* once when at most one spec resolves to it, and apply_modify issues one
\* update for it per diff entry.
C27_OncePerSpec ==
  (Done /\ UniqueNames(actual)) =>
    \A a \in ActualIdx :
      /\ Occurrences(result.valid, a) + Occurrences(ResultDiffActuals, a)
           = Cardinality({s \in TruthIdx : CounterpartOf(s, a)})
      /\ Cardinality({p \in 1..Len(apply_modify(ResultRead)) :
                        apply_modify(ResultRead)[p].name = actual[a].name})
           = Occurrences(ResultDiffActuals, a)

\* two specs resolve to the one label and both find a difference
C27_Witness ==
  /\ Done /\ UniqueNames(actual) /\ Len(actual) = 1 /\ Len(truth) = 2
  /\ CounterpartOf(1, 1) /\ CounterpartOf(2, 1)
  /\ Len(apply_modify(ResultRead)) = 2

\* C28: every spec is in exactly one of: missing, the spec of one diff
\* entry, the producer of one valid entry, skipped (optional, no counterpart,
\* require_optional false); the four counts add up to the number of specs.
C28_SpecOnce ==
  Done =>
    /\ \A s \in TruthIdx :
         /\ Occurrences(result.missing, s) + Occurrences(ResultDiffSpecs, s)
              + Occurrences(ValidProducers, s)
              + (IF s \in Skipped THEN 1 ELSE 0) = 1
         /\ s \in Range(result.missing) =>
              ~HasCounterpart(s) /\ ~SkipOptional(truth[s], require_optional)
         /\ s \in DiffSpecs => HasCounterpart(s)
    /\ Len(result.valid) = Len(ValidProducers)
    /\ Len(result.missing) + Len(result.diff) + Len(result.valid)
         + Cardinality(Skipped) = Len(truth)

C28_Witness ==
  /\ Done /\ Len(truth) = 2
  /\ Cardinality(Skipped) = 1 /\ Len(result.valid) = 1

\* the specs that resolved to the label through an alias and found no difference
ViaAlias(a) ==
  {s \in TruthIdx :
     /\ CounterpartOf(s, a) /\ truth[s].name # actual[a].name
     /\ s \notin DiffSpecs}

\* C29 as claimed: a label in valid whose name is the name of some spec has
\* resolved_alias unset, a label with resolved_alias = S has a name other
\* than S.name that is in S.alias, and with rename_alias no label has it set.
C29_Original ==
  Done =>
    /\ \A a \in Range(result.valid) :
         (\E s \in TruthIdx : truth[s].name = actual[a].name)
           => actual[a].resolved_alias = 0
    /\ \A a \in ActualIdx :
         actual[a].resolved_alias # 0 =>
           /\ actual[a].name # truth[actual[a].resolved_alias].name
           /\ actual[a].name \in AliasSet(actual[a].resolved_alias)
    /\ rename_alias => \A a \in ActualIdx : actual[a].resolved_alias = 0

\* C29 amended: a label has resolved_alias = S exactly when S is the last
\* spec that resolved to it through an alias without a difference; it is then
\* in valid, and its name is not S.name and is in S.alias.  A label in valid
\* that no spec reached through an alias has it unset; with rename_alias no
\* label has it set.
C29_AliasStamp ==
  Done =>
    /\ \A a \in ActualIdx :
         /\ ViaAlias(a) = {} => actual[a].resolved_alias = 0
         /\ ViaAlias(a) # {} =>
              /\ actual[a].resolved_alias \in ViaAlias(a)
              /\ \A s \in ViaAlias(a) : s <= actual[a].resolved_alias
              /\ a \in Range(result.valid)
              /\ actual[a].name \in AliasSet(actual[a].resolved_alias)
    /\ rename_alias => \A a \in ActualIdx : actual[a].resolved_alias = 0

\* the label is in valid for a spec of its own name and carries the stamp of
\* another spec that aliases it
C29_Witness ==
  /\ Done /\ Len(truth) = 2 /\ Len(actual) = 1
  /\ truth[2].name = actual[1].name
  /\ actual[1].resolved_alias = 1
  /\ result.valid = <<1, 1>>

\* ---- the namespace commands
NamespaceMode == repository = "" /\ repos_err = None
RepoIndex(name) == CHOOSE i \in 1..Len(RepoNames) : RepoNames[i] = name
\* the repositories whose labels cannot be fetched, and the first of them
Failing == {i \in 1..Len(repos) : ~repos[i].archived /\ repos[i].err # None}
FirstFailing == CHOOSE i \in Failing : \A j \in Failing : i <= j
NonDecreasing(seq) == \A p, q \in 1..Len(seq) : p < q => seq[p] <= seq[q]
IsPrefix(s, t) == Len(s) <= Len(t) /\ \A p \in 1..Len(s) : s[p] = t[p]
\* every entry of every repository before position n that is not archived
RECURSIVE EntriesBefore(_)
EntriesBefore(n) ==
  IF n <= 1 THEN <<>>
  ELSE EntriesBefore(n - 1)
       \o (IF repos[n - 1].archived THEN <<>> ELSE _apply(args, DiffOf(n - 1)))
RECURSIVE DiffsBefore(_)
DiffsBefore(n) ==
  IF n <= 1 THEN <<>>
  ELSE DiffsBefore(n - 1)
       \o (IF repos[n - 1].archived THEN <<>> ELSE <<DiffOf(n - 1)>>)

\* ---- the JSON report
\* the report command came to its _report call
ReportRan ==
  /\ pc = "exited" /\ command = "report"
  /\ IF repository = "" THEN repos_err = None /\ Failing = {}
     ELSE repos[1].err = None
EveryAction ==
  [create |-> TRUE, delete |-> TRUE, modify |-> TRUE, assumeyes |-> TRUE]
\* the calls _apply issues for the first n diffs of a list
RECURSIVE ApplyAll(_, _)
ApplyAll(ds, n) ==
  IF n = 0 THEN <<>> ELSE ApplyAll(ds, n - 1) \o _apply(EveryAction, ds[n])

\* C16: serializing a LabelDiff returned by create_diff as create_json_report
\* does and reading it back with LabelDiff.from_dict succeeds and gives a
\* LabelDiff with the same namespace, repository and the same field values
\* in valid, missing, extra and diff.
C16_RoundTrip ==
  \A p \in 1..Len(diffs) :
    /\ create_json_report(diffs[p]).raised = ""
    /\ from_dict(create_json_report(diffs[p]).text[1]) = diffs[p]

\* C17: the JSON report printed by the report command, for one repository
\* and for a namespace, is a document load_json_report reads back into the
\* diffs of the run, and applying them issues the create, delete and update
\* calls of the original diffs.
C17_ReportDrivesApply ==
  (ReportRan /\ report_format = "json") =>
    /\ raised = "" /\ exit_code = 0
    /\ Len(stdout) = 1 /\ stdout[1].kind = "json"
    /\ LET loaded == load_json_report(stdout[1].data)
       IN  /\ Len(loaded) = Len(diffs)
           /\ ApplyAll(loaded, Len(loaded)) = ApplyAll(diffs, Len(diffs))

\* the work done so far is of repositories before the loop position, in
\* listing order
C20_Sequential ==
  NamespaceMode =>
    /\ NonDecreasing([p \in 1..Len(calls) |-> RepoIndex(calls[p].repository)])
    /\ \A p \in 1..Len(calls) : RepoIndex(calls[p].repository) < repo_i
    /\ \A p \in 1..Len(stdout) :
         stdout[p].repository # "" => RepoIndex(stdout[p].repository) < repo_i
    /\ pc = "repos" /\ command = "report" => diffs = DiffsBefore(repo_i)

\* the batch ended by the first repository whose labels cannot be fetched
C20_Aborted ==
  (NamespaceMode /\ Failing # {} /\ pc = "exited") =>
    /\ exit_code = 1 /\ raised = ""
    /\ repo_i = FirstFailing
    /\ stderr # <<>> /\ stderr[Len(stderr)] = repos[FirstFailing].err[1]
    /\ \A p \in 1..Len(calls) : RepoIndex(calls[p].repository) < FirstFailing
    /\ \A p \in 1..Len(stdout) :
         /\ stdout[p].kind \in {"create", "delete", "modify"}
         /\ RepoIndex(stdout[p].repository) < FirstFailing
    /\ command = "report" => stdout = <<>> /\ diffs = DiffsBefore(FirstFailing)
    /\ command = "sync" /\ args.assumeyes => calls = EntriesBefore(FirstFailing)

\* no step takes back a call that was issued, and the aborting step issues none
C20_Kept ==
  /\ IsPrefix(calls, calls')
  /\ (pc = "repos" /\ pc' = "exited" /\ exit_code' = 1) =>
       calls' = calls /\ stdout' = stdout /\ diffs' = diffs

\* C20: in namespace mode (report and sync) the repositories are processed
\* one after the other in listing order; a fetch_labels error for a
\* repository ends the batch with exit code 1, with no diff, no report and
\* no create/update/delete call for that repository or a later one, and in
\* sync mode the calls issued for earlier repositories stay issued.
C20_FailFast == [](C20_Sequential /\ C20_Aborted) /\ [][C20_Kept]_vars

\* a sync run that issued calls for the first repository and was ended by
\* the second
C20_Witness ==
  /\ NamespaceMode /\ command = "sync" /\ pc = "exited"
  /\ Len(repos) = 2 /\ FirstFailing = 2 /\ Failing # {}
  /\ calls # <<>> /\ exit_code = 1

\* ---- the apply loops
\* the call events of the log: the k-th is the event of calls[k]
CallEvents == SelectSeq(log, LAMBDA e : e.ev \in {"call", "failed"})
EntryOf(e) == ListOf(diffs[1], e.phase)[e.entry]
SameEntry(e1, e2) == e1.phase = e2.phase /\ e1.entry = e2.entry
Declared(spec) == {f \in {"description", "color"} : spec[f] # None}
Exited == pc = "exited"

\* C21: in a sync with rename_alias and modify, the update call of a diff
\* entry whose delta has NAME addresses the observed name and carries the
\* spec's name as new_name.
C21_Renames ==
  \A k \in 1..Len(calls) :
    (/\ Len(CallEvents) >= k
     /\ CallEvents[k].phase = "modify"
     /\ rename_alias
     /\ InList(NAME, EntryOf(CallEvents[k]).delta))
    => /\ calls[k].name = EntryOf(CallEvents[k]).actual.name
       /\ "new_name" \in DOMAIN calls[k].body
       /\ calls[k].body.new_name = EntryOf(CallEvents[k]).spec.name

\* C22: every entry gets at most one call, a call answered with an error is
\* not repeated, its error is printed, and the loop goes on with the next
\* entry: when the command ends every entry of a selected action was
\* reported and, unless refused, called.
C22_State ==
  /\ Len(calls) = Len(CallEvents)
  /\ \A k \in 1..Len(calls) :
       calls[k] = CallsOf(diffs[1], CallEvents[k].phase)[CallEvents[k].entry]
  /\ \A j, k \in 1..Len(CallEvents) :
       SameEntry(CallEvents[j], CallEvents[k]) => j = k
  /\ Len(stderr) = Len(SelectSeq(log, LAMBDA e : e.ev = "failed"))
  /\ Exited =>
       \A ph \in {"create", "delete", "modify"} :
         args[ph] =>
           \A i \in 1..Len(ListOf(diffs[1], ph)) :
             /\ \E p \in 1..Len(log) : log[p] = Event("report", ph, i)
             /\ \/ \E p \in 1..Len(log) : log[p] = Event("call", ph, i)
                \/ \E p \in 1..Len(log) : log[p] = Event("failed", ph, i)
                \/ \E p \in 1..Len(log) : log[p] = Event("no", ph, i)

\* the step of a call answered with an error
C22_Step ==
  (pc = "call" /\ Len(stderr') > Len(stderr)) =>
    /\ Len(stderr') = Len(stderr) + 1
    /\ Len(calls') = Len(calls) + 1
    /\ pc' = "apply" /\ phase' = phase /\ entry_i' = entry_i + 1
    /\ stdout' = stdout

C30_State ==
  \A k \in 1..Len(calls) :
    Len(CallEvents) >= k =>
      LET e == EntryOf(CallEvents[k])
      IN  /\ CallEvents[k].phase = "modify" =>
               /\ calls[k].name = e.actual.name
               /\ DOMAIN calls[k].body = Declared(e.spec)
               /\ \A f \in Declared(e.spec) : calls[k].body[f] = e.spec[f][1]
          /\ CallEvents[k].phase = "create" =>
               /\ calls[k].name = e.name
               /\ DOMAIN calls[k].body = {"name"} \cup Declared(e)
               /\ calls[k].body.name = e.name
               /\ \A f \in Declared(e) : calls[k].body[f] = e[f][1]

\* the step of an update answered with 2xx
C30_Step ==
  (pc = "call" /\ phase = "modify" /\ Len(stderr') = Len(stderr)) =>
    LET e == ListOf(diffs[1], phase)[entry_i]
    IN  /\ Len(remote') = Len(remote)
        /\ \A p \in 1..Len(remote) :
             /\ remote'[p].name = remote[p].name
             /\ \A f \in {"description", "color"} :
                  remote'[p][f] =
                    IF remote[p].name = e.actual.name /\ f \in Declared(e.spec)
                    THEN e.spec[f] ELSE remote[p][f]

C30_DeclaredOnly == []C30_State /\ [][C30_Step]_vars

\* an update of the color alone: the remote description stays
C30_Witness ==
  /\ Exited /\ Len(calls) = 1 /\ calls[1].op = "update"
  /\ DOMAIN calls[1].body = {"color"}
  /\ Len(remote) = 1 /\ remote[1].description = Some("old")
  /\ remote[1].color = Some("d73a4a")

\* ---- sync, then sync again
\* the second run has computed its diff after a first run with every action
\* selected and confirmed and every call answered with 2xx
Resynced ==
  /\ pc = "resynced"
  /\ UniqueNames(truth) /\ UniqueNames(actual)
  /\ ~rename_alias /\ ~rejects
  /\ Len(calls) = Len(_apply(args, diffs[1]))
\* no observed label is named or aliased by more than one spec
NoSharedLabel ==
  \A a \in ActualIdx : Cardinality({s \in TruthIdx : Names2(s, a)}) <= 1

NextOf(r) ==
  IF /\ r.body = "list" /\ Success(r.code) /\ r.link # None
     /\ \E p \in 1..Len(r.link[1]) : r.link[1][p].rel = "next"
  THEN LET h == r.link[1]
           last == CHOOSE p \in 1..Len(h) :
                     /\ h[p].rel = "next"
                     /\ \A q \in p + 1..Len(h) : h[q].rel # "next"
       IN  h[last].url
  ELSE 0

\* the pages from page i on, following next, n pages at most
RECURSIVE Walk(_, _)
Walk(i, n) ==
  IF n = 0 THEN <<>>
  ELSE <<i>> \o (IF NextOf(listing[i]) = 0 THEN <<>>
                 ELSE Walk(NextOf(listing[i]), n - 1))

Chain == Walk(1, MaxFetches)
ChainEnds == NextOf(listing[Chain[Len(Chain)]]) = 0

\* the items of the first n pages of v, in that order
RECURSIVE ItemsOf(_, _)
ItemsOf(v, n) ==
  IF n = 0 THEN <<>> ELSE ItemsOf(v, n - 1) \o listing[v[n]].items

ErrorText(code) ==
  IF code = 404 THEN Some("Resource not found") ELSE Some("Unknown error")

Ended == pc \in {"returned", "exited"}
LastPage == listing[visited[Len(visited)]]

\* the call ends when the chain of next links ends, and only then
C24_Ends == (ChainEnds => <>Ended) /\ (~ChainEnds => []~Ended)

C24_OriginalState ==
  /\ IsPrefix(visited, Chain)
  /\ Ended =>
       /\ pc = "returned"
       /\ IF \A p \in 1..Len(visited) : Success(listing[visited[p]].code)
          THEN /\ returned = <<[data |-> ItemsOf(visited, Len(visited)),
                                err |-> None]>>
               /\ NextOf(LastPage) = 0
          ELSE returned = <<[data |-> <<>>, err |-> ErrorText(LastPage.code)]>>

\* C24 as claimed: the pages are fetched along the next links; when every
\* page answered 2xx the call returns all their items in page order with no
\* error, at the first page without a next relation; when a page answered
\* non-2xx it returns no items with the error text of the code; the call
\* ends iff the chain of next links ends.
C24_Original == []C24_OriginalState /\ C24_Ends

C24_State ==
  /\ IsPrefix(visited, Chain)
  /\ pc = "fetching" =>
       /\ returned = <<>>
       /\ content = ItemsOf(visited, Len(visited))
       /\ visited # <<>> => endpoint = NextOf(LastPage)
  /\ Ended =>
       /\ visited = Chain
       /\ CASE LastPage.body = "text" ->
                 pc = "exited" /\ exit_code = 1 /\ returned = <<>>
            [] LastPage.body # "text" /\ ~Success(LastPage.code) ->
                 /\ pc = "returned"
                 /\ returned = <<[data |-> <<>>,
                                  err |-> ErrorText(LastPage.code)]>>
            [] LastPage.body = "object" /\ Success(LastPage.code) ->
                 pc = "exited" /\ raised = "AssertionError" /\ returned = <<>>
            [] OTHER ->
                 /\ pc = "returned"
                 /\ returned = <<[data |-> ItemsOf(visited, Len(visited)),
                                  err |-> None]>>

\* C24 amended: the pages are fetched along the next links; the call returns
\* all items in page order with no error at the first 2xx list page without
\* a next relation; at a page with a JSON body and a non-2xx code it returns
\* no items with the error text of the code; at a page whose body is not
\* JSON, or is 2xx JSON but not a list, nothing is returned and the process
\* ends with exit code 1; the call ends iff the chain of next links ends.
C24_Pages == []C24_State /\ C24_Ends

\* three pages fetched out of url order, their items returned in page order
C24_Witness ==
  /\ pc = "returned" /\ visited = <<1, 3, 2>>
  /\ returned = <<[data |-> <<10, 30, 20>>, err |-> None]>>

\* the one-call form of create_diff agrees with its steps
CreateDiffAgrees ==
  Done =>
    LET r == create_diff(truth, actual, namespace, repository, rename_alias,
                         require_optional)
    IN  r.diff = result /\ r.actual = actual
====
